---- MODULE Spec2Model ----
(***************************************************************************)
(* A model of the Befunge-93 interpreter core: core/interpreter.py,        *)
(* core/InstructionPointer.py, core/stack.py and core/direction.py.        *)
(*                                                                         *)
(* Characters are represented by their code points (ord/chr), so a grid    *)
(* cell is an integer in 0..255 for every character 'p' can write, and a   *)
(* Python list or string is a sequence (index i of the code is i + 1).     *)
(*                                                                         *)
(* Python integers are unbounded.  A value is a little-endian sequence of  *)
(* integer coefficients <<c0, c1, ...>> denoting c0 + c1*B + c2*B^2 + ...  *)
(* with B = 10**400, a number larger than the largest finite float.  An    *)
(* ordinary small integer n is <<n>>.  This keeps the arithmetic exact     *)
(* for the huge integers a user can type into an '&' prompt.               *)
(***************************************************************************)
EXTENDS Integers, Sequences, FiniteSets, TLC

VARIABLES
    ip,          \* Interpreter.ip: the InstructionPointer object (a record)
    stack,       \* Interpreter.stack.items, bottom to top
    output,      \* Interpreter.output, a sequence of character codes
    halted,      \* Interpreter.halted
    op,          \* history: the operation performed last
    status,      \* history: what the last step() returned ("none" after load)
    cell,        \* history: the character step() read last (-1: none read)
    arg,         \* history: the value of the last provide_input (None: none)
    puts,        \* history: per written cell, the value of the latest 'p'
    source,      \* history: the code given to the last load()
    ret,         \* history: the value returned by the last Stack method call
    nsteps,      \* number of step() calls since the last load()
    ninputs,     \* number of provide_input() calls since the last load()
    nreloads,    \* number of reset() calls since the last load()
    snapshot,    \* the ViewState a client holds, if it has taken one
    app          \* the App of ui/app.py that drives the interpreter, if any

vars == <<ip, stack, output, halted, op, status, cell, arg, puts, source, ret,
          nsteps, ninputs, nreloads, snapshot, app>>

-----------------------------------------------------------------------------
(* Bounds of the model. *)

MaxSteps == 7
MaxInputs == 1
MaxReloads == 1
MaxLen == 3
MaxMoves == 82

\* The largest steps-per-tick setting and the number of timers created.
MaxStepsPerTick == 2

MaxTimers == 2

-----------------------------------------------------------------------------
(* Program constants. *)

MIN_WIDTH == 80
MIN_HEIGHT == 25

\* The exponent of B = 10**BigExp and the binary exponent limit of a float:
\* 10**400 > 2**1024 > sys.float_info.max.
BigExp == 400

None == <<>>

Max(a, b) == IF a >= b THEN a ELSE b

\* ord() of the characters the programs below are written with.
Ord ==
    (" " :> 32) @@ ("!" :> 33) @@ ("quote" :> 34) @@ ("#" :> 35) @@ ("$" :> 36) @@
    ("%" :> 37) @@ ("&" :> 38) @@ ("*" :> 42) @@ ("+" :> 43) @@ ("," :> 44) @@
    ("-" :> 45) @@ ("." :> 46) @@ ("/" :> 47) @@ ("0" :> 48) @@ ("1" :> 49) @@
    ("2" :> 50) @@ ("3" :> 51) @@ ("4" :> 52) @@ ("5" :> 53) @@ ("6" :> 54) @@
    ("7" :> 55) @@ ("8" :> 56) @@ ("9" :> 57) @@ (":" :> 58) @@ ("<" :> 60) @@
    (">" :> 62) @@ ("?" :> 63) @@ ("@" :> 64) @@ ("backslash" :> 92) @@ ("^" :> 94) @@
    ("_" :> 95) @@ ("backtick" :> 96) @@ ("a" :> 97) @@ ("g" :> 103) @@ ("p" :> 112) @@
    ("v" :> 118) @@ ("|" :> 124) @@ ("~" :> 126) @@ ("newline" :> 10) @@
    ("superscript two" :> 178)

\* A source text: the sequence of the codes of its characters.
Text(s) == [i \in DOMAIN s |-> Ord[s[i]]]

-----------------------------------------------------------------------------
(* Python int arithmetic on values. *)

I(n) == <<n>>

Coef(a, i) == IF i <= Len(a) THEN a[i] ELSE 0

RECURSIVE Norm(_)
Norm(a) ==
    IF Len(a) > 1 /\ a[Len(a)] = 0 THEN Norm(SubSeq(a, 1, Len(a) - 1)) ELSE a

add(a, b) == Norm([i \in 1..Max(Len(a), Len(b)) |-> Coef(a, i) + Coef(b, i)])

sub(a, b) == Norm([i \in 1..Max(Len(a), Len(b)) |-> Coef(a, i) - Coef(b, i)])

RECURSIVE Conv(_, _, _, _)
Conv(a, b, k, i) ==
    IF i > k THEN 0
    ELSE Coef(a, i) * Coef(b, k + 1 - i) + Conv(a, b, k, i + 1)

mul(a, b) == Norm([k \in 1..(Len(a) + Len(b) - 1) |-> Conv(a, b, k, 1)])

\* -1, 0 or 1: the sign of a value (of its leading coefficient).
Sign(a) ==
    LET c == Norm(a)[Len(Norm(a))]
    IN  IF c > 0 THEN 1 ELSE IF c < 0 THEN -1 ELSE 0

IsZero(a) == Norm(a) = <<0>>

Greater(a, b) == Sign(sub(a, b)) = 1

RECURSIVE PowMod(_, _, _)
PowMod(base, e, n) ==
    IF e = 0 THEN 1 % n
    ELSE IF e % 2 = 0 THEN LET h == PowMod(base, e \div 2, n) IN (h * h) % n
    ELSE (base * PowMod(base, e - 1, n)) % n

RECURSIVE ModSum(_, _, _)
ModSum(a, n, i) ==
    IF i > Len(a) THEN 0
    ELSE ((a[i] % n) * PowMod(10, BigExp * (i - 1), n) + ModSum(a, n, i + 1)) % n

\* Python a % n for an int n > 0: the result is in 0..n-1.
Mod(a, n) == ModSum(a, n, 1)

\* The quotient of two small integers truncated toward zero.
TruncQ(a, b) ==
    LET q == (IF a >= 0 THEN a ELSE -a) \div (IF b >= 0 THEN b ELSE -b)
    IN  IF (a >= 0) = (b >= 0) THEN q ELSE -q


\* int(a / b) for b # 0.  a / b is the float nearest the exact quotient and
\* raises OverflowError when that quotient is too large for a float; int()
\* then truncates the float toward zero.  raised = TRUE stands for the
\* OverflowError.  With La, Lb the number of coefficients of a and b:
\*   La > Lb: |a / b| >= B / 2**32, too large for a float;
\*   La < Lb: |a / b| <= 2**32 / B, which underflows to 0.0;
\*   La = Lb: the float is the quotient of the leading coefficients
\*            (the lower terms change it by less than one part in 10**390).
IntOfTrueDiv(a, b) ==
    LET na == Norm(a)
        nb == Norm(b)
    IN  IF Len(na) > Len(nb) THEN [raised |-> TRUE, val |-> I(0)]
        ELSE IF Len(na) < Len(nb) THEN [raised |-> FALSE, val |-> I(0)]
        ELSE [raised |-> FALSE, val |-> I(TruncQ(na[Len(na)], nb[Len(nb)]))]

\* A trunc_div() without the test for a zero divisor: a / 0 raises.
trunc_div_unguarded(a, b) ==
    IF IsZero(b) THEN [raised |-> TRUE, val |-> I(0)]
    ELSE IntOfTrueDiv(a, b)

trunc_div(a, b) ==
    IF IsZero(b) THEN [raised |-> FALSE, val |-> I(0)]
    ELSE IntOfTrueDiv(a, b)

c_mod(a, b) ==
    IF IsZero(b) THEN [raised |-> FALSE, val |-> I(0)]
    ELSE LET q == trunc_div(a, b)
         IN  IF q.raised THEN q
             ELSE [raised |-> FALSE, val |-> sub(a, mul(q.val, b))]

-----------------------------------------------------------------------------
(* str(v): the decimal text of a value, as character codes. *)

RECURSIVE Digits(_)
Digits(n) ==
    IF n < 10 THEN <<48 + n>> ELSE Append(Digits(n \div 10), 48 + (n % 10))

Repeat(c, n) == [i \in 1..n |-> c]

\* The digits of n >= 0 padded with zeros on the left to width w.
ZFill(n, w) == Repeat(48, w - Len(Digits(n))) \o Digits(n)

RECURSIVE Pow10(_)
Pow10(n) == IF n = 0 THEN 1 ELSE 10 * Pow10(n - 1)

\* The BigExp decimal digits of the base-B digit d, where d >= 0 stands for
\* itself and d < 0 stands for B + d (a digit that borrowed from the next).
Block(d) ==
    IF d >= 0 THEN ZFill(d, BigExp)
    ELSE LET w == Len(Digits(-d))
         IN  Repeat(57, BigExp - w) \o ZFill(Pow10(w) - (-d), w)

\* The base-B digits of a magnitude m (leading coefficient > 0), low to high,
\* borrowing 1 from the next digit where a coefficient is negative.
RECURSIVE Borrow(_, _, _)
Borrow(m, i, carry) ==
    IF i > Len(m) THEN <<>>
    ELSE LET t == m[i] + carry
         IN  IF i = Len(m) THEN <<t>>
             ELSE <<t>> \o Borrow(m, i + 1, IF t < 0 THEN -1 ELSE 0)

RECURSIVE Blocks(_, _)
Blocks(d, i) ==
    IF i = 0 THEN <<>>
    ELSE IF i = Len(d) /\ d[i] = 0 THEN Blocks(d, i - 1)
    ELSE IF i = Len(d) \/ (i = Len(d) - 1 /\ d[Len(d)] = 0)
         THEN (IF d[i] >= 0 THEN Digits(d[i]) ELSE Block(d[i]))
              \o Blocks(d, i - 1)
    ELSE Block(d[i]) \o Blocks(d, i - 1)

Str(v) ==
    LET a == Norm(v)
        m == IF Sign(a) < 0 THEN [i \in 1..Len(a) |-> -a[i]] ELSE a
        minus == IF Sign(a) < 0 THEN <<45>> ELSE <<>>
    IN  IF Len(a) = 1 THEN minus \o Digits(m[1])
        ELSE minus \o Blocks(Borrow(m, 1, 0), Len(m))

-----------------------------------------------------------------------------
(* core/stack.py: each method maps the items to [items, the value returned]. *)

push(items, item) == Append(items, item)

size(items) == Len(items)

peek(items) ==
    [items |-> items,
     ret |-> IF items # <<>> THEN items[Len(items)] ELSE I(0)]

pop(items) ==
    IF size(items) > 0
    THEN [items |-> SubSeq(items, 1, Len(items) - 1), ret |-> items[Len(items)]]
    ELSE [items |-> items, ret |-> I(0)]

\* A pop_two() that reads a one-element stack without consuming it.
pop_two_keep(items) ==
    IF size(items) = 1
    THEN [items |-> items, ret |-> <<items[1], I(0)>>]
    ELSE IF size(items) = 0
    THEN [items |-> items, ret |-> <<I(0), I(0)>>]
    ELSE LET p1 == pop(items)
             p2 == pop(p1.items)
         IN  [items |-> p2.items, ret |-> <<p1.ret, p2.ret>>]

pop_two(items) ==
    IF size(items) = 1
    THEN LET p1 == pop(items) IN [items |-> p1.items, ret |-> <<p1.ret, I(0)>>]
    ELSE IF size(items) = 0
    THEN [items |-> items, ret |-> <<I(0), I(0)>>]
    ELSE LET p1 == pop(items)
             p2 == pop(p1.items)
         IN  [items |-> p2.items, ret |-> <<p1.ret, p2.ret>>]

stack_swap(items) ==
    LET s1 == IF size(items) = 1 THEN push(items, I(0)) ELSE items
        pt == pop_two(s1)
        b == pt.ret[1]
        a == pt.ret[2]
    IN  [items |-> push(push(pt.items, b), a), ret |-> None]

-----------------------------------------------------------------------------
(* core/direction.py *)

Directions == {"RIGHT", "LEFT", "UP", "DOWN"}

dx(d) == CASE d = "RIGHT" -> 1 [] d = "LEFT" -> -1 [] d = "UP" -> 0 [] d = "DOWN" -> 0

dy(d) == CASE d = "RIGHT" -> 0 [] d = "LEFT" -> 0 [] d = "UP" -> -1 [] d = "DOWN" -> 1

-----------------------------------------------------------------------------
(* core/InstructionPointer.py *)

\* str.splitlines(): the line boundaries among the characters of code 0..255.
LineBreaks == {10, 11, 12, 13, 28, 29, 30, 133}

RECURSIVE splitlines(_)
splitlines(code) ==
    IF code = <<>> THEN <<>>
    ELSE LET brk == {i \in 1..Len(code) : code[i] \in LineBreaks}
         IN  IF brk = {} THEN <<code>>
             ELSE LET i == CHOOSE j \in brk : \A k \in brk : j <= k
                      n == IF code[i] = 13 /\ i < Len(code) /\ code[i + 1] = 10
                           THEN i + 1 ELSE i
                  IN  <<SubSeq(code, 1, i - 1)>>
                      \o splitlines(SubSeq(code, n + 1, Len(code)))

RECURSIVE MaxLineLen(_)
MaxLineLen(lines) ==
    IF lines = <<>> THEN 0
    ELSE Max(Len(lines[1]), MaxLineLen(Tail(lines)))

\* An ljust() that does not pad.
ljust_none(l, W) == l

\* l.ljust(W, ' '): l padded with spaces on the right to the length W.
ljust(l, W) == IF Len(l) >= W THEN l ELSE l \o [c \in 1..(W - Len(l)) |-> 32]

\* InstructionPointer.__init__ on the lines of the code.  A Python list is a
\* sequence: grid[y][x] of the code is grid[y + 1][x + 1] here.
NewIP(lines) ==
    LET ow == MaxLineLen(lines)
        oh == Len(lines)
        W == Max(MIN_WIDTH, ow)
        H == Max(MIN_HEIGHT, oh)
    IN  [grid |-> [r \in 1..oh |-> ljust(lines[r], W)]
                  \o [r \in 1..(H - oh) |-> [c \in 1..W |-> 32]],
         width |-> W, height |-> H,
         orig_width |-> ow, orig_height |-> oh,
         x |-> 0, y |-> 0, direction |-> "RIGHT",
         skip |-> FALSE, string |-> FALSE, last_was_random |-> FALSE,
         waiting_for |-> "None", pending_input |-> None]

\* ["".join(row) for row in code]: a row of characters is its own text.
Rows(code) == [r \in 1..Len(code) |-> code[r]]

\* A move() that stops at the edges of the grid instead of wrapping.
move_clamp(p) ==
    LET lim(v, n) == IF v < 0 THEN 0 ELSE IF v > n - 1 THEN n - 1 ELSE v
        ddx == dx(p.direction)
        ddy == dy(p.direction)
        x1 == IF p.skip THEN lim(p.x + ddx, p.width) ELSE p.x
        y1 == IF p.skip THEN lim(p.y + ddy, p.height) ELSE p.y
    IN  [p EXCEPT !.x = lim(x1 + ddx, p.width),
                  !.y = lim(y1 + ddy, p.height),
                  !.skip = FALSE]

\* A move() that wraps one cell short of the right and bottom edges.
move_short(p) ==
    [p EXCEPT !.x = (p.x + dx(p.direction)) % (p.width - 1),
              !.y = (p.y + dy(p.direction)) % (p.height - 1),
              !.skip = FALSE]

\* A move() that leaves the skip flag set after the double step.
move_keep_skip(p) ==
    LET ddx == dx(p.direction)
        ddy == dy(p.direction)
        x1 == IF p.skip THEN (p.x + ddx) % p.width ELSE p.x
        y1 == IF p.skip THEN (p.y + ddy) % p.height ELSE p.y
    IN  [p EXCEPT !.x = (x1 + ddx) % p.width,
                  !.y = (y1 + ddy) % p.height]

move(p) ==
    LET ddx == dx(p.direction)
        ddy == dy(p.direction)
        x1 == IF p.skip THEN (p.x + ddx) % p.width ELSE p.x
        y1 == IF p.skip THEN (p.y + ddy) % p.height ELSE p.y
    IN  [p EXCEPT !.x = (x1 + ddx) % p.width,
                  !.y = (y1 + ddy) % p.height,
                  !.skip = FALSE]

-----------------------------------------------------------------------------
(* core/interpreter.py.  An interpreter state s is the record                *)
(* [ip, stack, output, halted]; an opcode handler maps s to the record       *)
(* [s, status], where status is what the handler returns or "RAISED" when    *)
(* it raises an exception.                                                   *)

Done(s) == [s |-> s, status |-> "None"]

_pop_or_zero(items) ==
    IF size(items) > 0 THEN pop(items) ELSE [items |-> items, ret |-> I(0)]

\* A _pop_two_ab() that hands the operands over in the order popped.
_pop_two_ba(items) == [items |-> pop_two(items).items, ret |-> pop_two(items).ret]

_pop_two_ab(items) ==
    LET pt == pop_two(items)
        b == pt.ret[1]
        a == pt.ret[2]
    IN  [items |-> pt.items, ret |-> <<a, b>>]

op_add(a, b) == [raised |-> FALSE, val |-> add(a, b)]

op_sub(a, b) == [raised |-> FALSE, val |-> sub(a, b)]

op_mul(a, b) == [raised |-> FALSE, val |-> mul(a, b)]

\* fn(a, b) for the function a binary opcode hands to _bin.
Call(fn, a, b) ==
    CASE fn = "op.add" -> op_add(a, b)
      [] fn = "op.sub" -> op_sub(a, b)
      [] fn = "op.mul" -> op_mul(a, b)
      [] fn = "trunc_div" -> trunc_div(a, b)
      [] fn = "c_mod" -> c_mod(a, b)

_bin(s, fn) ==
    LET ab == _pop_two_ab(s.stack)
        r == Call(fn, ab.ret[1], ab.ret[2])
    IN  IF r.raised
        THEN [s |-> [s EXCEPT !.stack = ab.items], status |-> "RAISED"]
        ELSE Done([s EXCEPT !.stack = push(ab.items, r.val)])

_gt(s) ==
    LET ab == _pop_two_ab(s.stack)
    IN  Done([s EXCEPT !.stack =
                 push(ab.items,
                      IF Greater(ab.ret[1], ab.ret[2]) THEN I(1) ELSE I(0))])

_not(s) ==
    LET a == _pop_or_zero(s.stack)
    IN  Done([s EXCEPT !.stack =
                 push(a.items, IF ~IsZero(a.ret) THEN I(0) ELSE I(1))])

\* An _await() that records the request but does not return the status.
_await_silent(s, kind) == Done([s EXCEPT !.ip.waiting_for = kind])

\* An _await() that suspends only the first time it is reached.
_await_once(s, kind) ==
    IF s.ip.waiting_for = kind THEN Done(s)
    ELSE [s |-> [s EXCEPT !.ip.waiting_for = kind], status |-> "AWAITING_INPUT"]

_await(s, kind) ==
    [s |-> [s EXCEPT !.ip.waiting_for = kind], status |-> "AWAITING_INPUT"]

\* The cell 'p' or 'g' addresses and what is left of the stack, from the
\* stack before the pops of y and x.
Target(s) ==
    LET y == _pop_or_zero(s.stack)
        x == _pop_or_zero(y.items)
        h == Len(s.ip.grid)
        w == IF h > 0 THEN Len(s.ip.grid[1]) ELSE 0
    IN  [items |-> x.items, h |-> h, w |-> w,
         row |-> IF h > 0 THEN Mod(y.ret, h) ELSE 0,
         col |-> IF w > 0 THEN Mod(x.ret, w) ELSE 0]

\* A 'p' that clamps the coordinates to the grid instead of wrapping them.
_put_clamped(s) ==
    LET y == _pop_or_zero(s.stack)
        x == _pop_or_zero(y.items)
        v == _pop_or_zero(x.items)
        h == Len(s.ip.grid)
        w == Len(s.ip.grid[1])
        row == IF Sign(y.ret) < 0 THEN 0
               ELSE IF Greater(y.ret, I(h - 1)) THEN h - 1 ELSE Norm(y.ret)[1]
        col == IF Sign(x.ret) < 0 THEN 0
               ELSE IF Greater(x.ret, I(w - 1)) THEN w - 1 ELSE Norm(x.ret)[1]
    IN  Done([s EXCEPT !.stack = v.items,
                       !.ip.grid[row + 1][col + 1] = Mod(v.ret, 256)])

_put(s) ==
    LET t == Target(s)
        v == _pop_or_zero(t.items)
    IN  IF t.h > 0 /\ t.w > 0
        THEN Done([s EXCEPT !.stack = v.items,
                            !.ip.grid[t.row + 1][t.col + 1] = Mod(v.ret, 256)])
        ELSE Done([s EXCEPT !.stack = v.items])

_get(s) ==
    LET t == Target(s)
    IN  IF t.h > 0 /\ t.w > 0
        THEN Done([s EXCEPT !.stack = push(t.items, I(s.ip.grid[t.row + 1][t.col + 1]))])
        ELSE Done([s EXCEPT !.stack = push(t.items, I(0))])

\* A '_' that turns the other way round.
_if_h_inverted(s) ==
    LET v == _pop_or_zero(s.stack)
    IN  Done([s EXCEPT !.stack = v.items,
                       !.ip.direction = IF IsZero(v.ret) THEN "LEFT" ELSE "RIGHT"])

_if_h(s) ==
    LET v == _pop_or_zero(s.stack)
    IN  Done([s EXCEPT !.stack = v.items,
                       !.ip.direction = IF IsZero(v.ret) THEN "RIGHT" ELSE "LEFT"])

_if_v(s) ==
    LET v == _pop_or_zero(s.stack)
    IN  Done([s EXCEPT !.stack = v.items,
                       !.ip.direction = IF IsZero(v.ret) THEN "DOWN" ELSE "UP"])

\* Direction.random() is returned to step(), which only compares it with
\* AWAITING_INPUT: the interpreter state is not touched.
_rand_dir(s) == Done(s)

_dup(s) ==
    Done([s EXCEPT !.stack =
             push(s.stack, IF size(s.stack) = 0 THEN I(0) ELSE peek(s.stack).ret)])

_swap(s) ==
    LET n == size(s.stack)
    IN  IF n >= 2 THEN Done([s EXCEPT !.stack = stack_swap(s.stack).items])
        ELSE IF n = 1
        THEN LET a == pop(s.stack)
             IN  Done([s EXCEPT !.stack = push(push(a.items, I(0)), a.ret)])
        ELSE Done([s EXCEPT !.stack = push(s.stack, I(0))])

_pop1(s) ==
    IF size(s.stack) # 0 THEN Done([s EXCEPT !.stack = pop(s.stack).items])
    ELSE Done(s)

\* A '.' that replaces the output by the number instead of appending it.
_out_int_replace(s) ==
    LET v == _pop_or_zero(s.stack)
    IN  Done([s EXCEPT !.stack = v.items, !.output = Str(v.ret)])

\* A '.' that writes a space after the number.
_out_int_spaced(s) ==
    LET v == _pop_or_zero(s.stack)
    IN  Done([s EXCEPT !.stack = v.items,
                       !.output = s.output \o Str(v.ret) \o <<32>>])

\* str(v) raises ValueError for an int of more than 4300 decimal digits
\* (the default sys.get_int_max_str_digits()); the value is popped before.
_out_int(s) ==
    LET v == _pop_or_zero(s.stack)
    IN  IF Len(Str(v.ret)) - (IF Sign(v.ret) < 0 THEN 1 ELSE 0) > 4300
        THEN [s |-> [s EXCEPT !.stack = v.items], status |-> "RAISED"]
        ELSE Done([s EXCEPT !.stack = v.items,
                            !.output = s.output \o Str(v.ret)])

_out_char(s) ==
    LET v == _pop_or_zero(s.stack)
    IN  Done([s EXCEPT !.stack = v.items,
                       !.output = Append(s.output, Mod(v.ret, 256))])

\* An arrow whose direction is not taken up.
_set_dir_ignored(s, d) == Done(s)

_set_dir(s, d) == Done([s EXCEPT !.ip.direction = d])

_bridge(s) == Done([s EXCEPT !.ip.skip = TRUE])

\* The characters of code 0..255 for which str.isdigit() is true:
\* '0'..'9' and the superscripts two, three and one.
isdigit(ch) == ch \in 48..57 \/ ch \in {178, 179, 185}

\* self._ops.get(ch) and its call; a glyph without an entry does nothing.
_ops(s, ch) ==
    CASE ch = 43 -> _bin(s, "op.add")
      [] ch = 45 -> _bin(s, "op.sub")
      [] ch = 42 -> _bin(s, "op.mul")
      [] ch = 47 -> _bin(s, "trunc_div")
      [] ch = 37 -> _bin(s, "c_mod")
      [] ch = 96 -> _gt(s)
      [] ch = 33 -> _not(s)
      [] ch = 112 -> _put(s)
      [] ch = 103 -> _get(s)
      [] ch = 38 -> _await(s, "int")
      [] ch = 126 -> _await(s, "char")
      [] ch = 95 -> _if_h(s)
      [] ch = 124 -> _if_v(s)
      [] ch = 58 -> _dup(s)
      [] ch = 92 -> _swap(s)
      [] ch = 36 -> _pop1(s)
      [] ch = 46 -> _out_int(s)
      [] ch = 44 -> _out_char(s)
      [] ch = 62 -> _set_dir(s, "RIGHT")
      [] ch = 60 -> _set_dir(s, "LEFT")
      [] ch = 94 -> _set_dir(s, "UP")
      [] ch = 118 -> _set_dir(s, "DOWN")
      [] ch = 63 -> _rand_dir(s)
      [] ch = 35 -> _bridge(s)
      [] OTHER -> Done(s)

\* The extended storage of the interpreter: load() creates the stack, the
\* IP, the output and the halted flag and nothing else, and no handler
\* records a written value, so the mapping has no entry in any state.
ExtendedStorage == [c \in {} |-> None]

\* The read of interp.grid_rev by the renderer.  An interpreter has the
\* attributes load() gives it (stack, ip, output, halted) and the opcode
\* table; the read of any other name raises AttributeError (raised = TRUE).
grid_rev(s) ==
    IF "grid_rev" \in DOMAIN s
    THEN [raised |-> FALSE, val |-> s.grid_rev]
    ELSE [raised |-> TRUE, val |-> None]

\* Interpreter.load on the lines of the code.
load(lines) ==
    [ip |-> NewIP(lines), stack |-> <<>>, output |-> <<>>, halted |-> FALSE]

\* A reset() that reloads the source given to the last load().
reset_original(s) == load(splitlines(source))

reset(s) == load(Rows(s.ip.grid))

\* Direction.glyph
glyph(d) ==
    CASE d = "RIGHT" -> 62 [] d = "LEFT" -> 60 [] d = "UP" -> 94 [] d = "DOWN" -> 118

\* Interpreter.view: the ViewState v.  list(self.stack) is a new list and
\* the output an immutable str, but grid is self.ip.grid itself: alias
\* records that v.grid and the grid of the IP are one list object.
view(s) ==
    [v |-> [ip_x |-> s.ip.x, ip_y |-> s.ip.y,
            direction |-> glyph(s.ip.direction),
            stack |-> s.stack, output |-> s.output, grid |-> s.ip.grid],
     taken |-> TRUE, alias |-> TRUE]

\* No App has been constructed on the interpreter.
NoApp == [constructed |-> FALSE]

\* No ViewState has been taken.
NoSnapshot == [v |-> None, taken |-> FALSE, alias |-> FALSE]

\* The snapshot once the interpreter has a new InstructionPointer, whose
\* grid is a new list: the old list stays as it was.
Detached(snap) == [snap EXCEPT !.alias = FALSE]

\* The snapshot after the interpreter has run on the grid g: a write to the
\* list shows in every reference to it.
Seen(snap, g) == IF snap.alias THEN [snap EXCEPT !.v.grid = g] ELSE snap

provide_input(s, value) ==
    [s EXCEPT !.ip.pending_input = value, !.ip.waiting_for = "None"]

Moved(s) == [s |-> [s EXCEPT !.ip = move(s.ip)], status |-> "RUNNING"]

\* step(): the test for a buffered input that can be delivered.
InputReady(s) == s.ip.pending_input # None /\ s.ip.waiting_for = "None"

\* A delivery of the buffered input that leaves the IP on the input opcode.
DeliverInputInPlace(s) ==
    [s |-> [s EXCEPT !.stack = push(s.stack, s.ip.pending_input),
                     !.ip.pending_input = None],
     status |-> "RUNNING"]

\* step(): the buffered input is pushed and cleared, and the IP moves.
DeliverInput(s) ==
    Moved([s EXCEPT !.stack = push(s.stack, s.ip.pending_input),
                    !.ip.pending_input = None])

\* A halt that still moves the IP off the '@'.
HaltAndMove(s) ==
    [s |-> [s EXCEPT !.halted = TRUE, !.ip = move(s.ip)], status |-> "HALTED"]

\* step(): the cell holds '@'.
Halt(s) == [s |-> [s EXCEPT !.halted = TRUE], status |-> "HALTED"]

\* step(): the cell holds '"'.
ToggleString(s) == Moved([s EXCEPT !.ip.string = ~s.ip.string])

\* A string mode that executes the character instead of pushing its code.
PushCharExecuted(s, ch) == Moved(_ops(s, ch).s)

\* step(): string mode pushes ord(ch).
PushChar(s, ch) == Moved([s EXCEPT !.stack = push(s.stack, I(ch))])

\* step(): a digit pushes ord(ch) - 48.
PushDigit(s, ch) == Moved([s EXCEPT !.stack = push(s.stack, I(ch - 48))])

\* A dispatch without the move that ends the step.
DispatchInPlace(s, ch) ==
    LET o == _ops(s, ch)
    IN  IF o.status \in {"AWAITING_INPUT", "RAISED"} THEN o
        ELSE [s |-> o.s, status |-> "RUNNING"]

\* step(): the opcode is looked up and called; the IP moves unless the
\* handler asks for input (or raises).
Dispatch(s, ch) ==
    LET o == _ops(s, ch)
    IN  IF o.status \in {"AWAITING_INPUT", "RAISED"} THEN o ELSE Moved(o.s)

\* Interpreter.step: [s, status, cell], cell being the character read
\* (-1 when the call returns before reading one).
step(s) ==
    IF InputReady(s) THEN DeliverInput(s) @@ [cell |-> -1]
    ELSE LET ch == s.ip.grid[s.ip.y + 1][s.ip.x + 1]
             r == IF ch = 64 THEN Halt(s)
                  ELSE IF ch = 34 THEN ToggleString(s)
                  ELSE IF s.ip.string THEN PushChar(s, ch)
                  ELSE IF ch = 32 THEN Moved(s)
                  ELSE IF isdigit(ch) THEN PushDigit(s, ch)
                  ELSE Dispatch(s, ch)
         IN  r @@ [cell |-> ch]

-----------------------------------------------------------------------------
(* ui/app.py: the App that drives an interpreter from Tk callbacks.  A       *)
(* callback maps a record [s, a, puts, status, cell]: the interpreter, the   *)
(* App and what the step() calls made so far have recorded.  In the App,     *)
(* timers is the set of tick timers Tk holds, _after = 0 stands for None,    *)
(* and raised, stepped, paused and after_pause describe the last callback:   *)
(* it ended in an exception, the number of step() calls it made, it returned *)
(* at a breakpoint, the callback before it had returned at a breakpoint.     *)

\* The members of core.types.StepStatus and core.types.WaitTypes, which
\* ui/app.py imports.  step() returns members of the StepStatus class of
\* core/interpreter.py ("RUNNING", "AWAITING_INPUT", "HALTED"), and _await
\* stores the strings 'int' and 'char': none of them is one of these.
StepStatus ==
    [RUNNING |-> "core.types.StepStatus.RUNNING",
     AWAITING_INPUT |-> "core.types.StepStatus.AWAITING_INPUT",
     HALTED |-> "core.types.StepStatus.HALTED"]

WaitTypes ==
    [INT |-> "core.types.WaitTypes.INT", CHAR |-> "core.types.WaitTypes.CHAR"]

\* App.__init__
NewApp ==
    [constructed |-> TRUE, _after |-> 0, timers |-> {}, ids |-> 0,
     input_bar |-> FALSE, breakpoints |-> {}, steps_per_tick |-> 1,
     raised |-> FALSE, stepped |-> 0, paused |-> FALSE, after_pause |-> FALSE]

\* The entry of a callback.
Entered(g) ==
    [g EXCEPT !.a.raised = FALSE, !.a.stepped = 0, !.a.paused = FALSE,
              !.a.after_pause = g.a.paused]

_cancel_timer(g) ==
    IF g.a._after # 0
    THEN [g EXCEPT !.a.timers = @ \ {g.a._after}, !.a._after = 0]
    ELSE g

\* self._after = self.after(int(self.speed_ms.get()), self.tick)
after_tick(g) ==
    [g EXCEPT !.a.ids = @ + 1, !.a.timers = @ \cup {g.a.ids + 1},
              !.a._after = g.a.ids + 1]

_program_is_empty(s) ==
    \/ s.ip.orig_width = 0
    \/ s.ip.orig_height = 0
    \/ \A y \in 1..s.ip.orig_height, x \in 1..s.ip.orig_width :
           s.ip.grid[y][x] = 32

\* render() reads interp.grid_rev before it draws anything.
render(g) == IF grid_rev(g.s).raised THEN [g EXCEPT !.a.raised = TRUE] ELSE g

_show_input_bar(g) ==
    IF g.s.ip.waiting_for \in {WaitTypes.INT, WaitTypes.CHAR}
    THEN [g EXCEPT !.a.input_bar = TRUE]
    ELSE g

_hide_input_bar(g) == [g EXCEPT !.a.input_bar = FALSE]

\* What a step() that returned r leaves of g.
Stepped(g, r) ==
    [g EXCEPT !.s = r.s, !.status = r.status, !.cell = r.cell,
              !.puts = IF ~InputReady(g.s) /\ ~g.s.ip.string /\ r.cell = 112
                       THEN (<<Target(g.s).col, Target(g.s).row>> :>
                                 _pop_or_zero(Target(g.s).items).ret) @@ g.puts
                       ELSE g.puts,
              !.a.stepped = @ + 1,
              !.a.raised = (r.status = "RAISED")]

\* status = self.interp.step()
interp_step(g) == Stepped(g, step(g.s))

\* tick(): the for loop with k iterations left, and what follows the step()
\* of one iteration.  The loop runs at least once (the slider starts at 1),
\* so the status tested after it is that of the last step().
RECURSIVE TickLoop(_, _)
AfterStep(n, k) ==
    IF n.a.raised \/ n.status # StepStatus.RUNNING THEN n
    ELSE TickLoop(n, k - 1)

TickLoop(g, k) ==
    IF k = 0 THEN g
    ELSE IF <<g.s.ip.x, g.s.ip.y>> \in g.a.breakpoints
    THEN [render(_cancel_timer(g)) EXCEPT !.a.paused = TRUE]
    ELSE AfterStep(interp_step(g), k)

\* tick(): what follows render() once the loop has ended.
Scheduled(r) ==
    IF r.a.raised THEN r
    ELSE IF r.status = StepStatus.RUNNING THEN after_tick(r)
    ELSE IF r.status = StepStatus.AWAITING_INPUT THEN _show_input_bar(r)
    ELSE _cancel_timer(r)

\* tick(): what follows the loop.
AfterLoop(l) == IF l.a.paused \/ l.a.raised THEN l ELSE Scheduled(render(l))

tick(g) == AfterLoop(TickLoop(g, g.a.steps_per_tick))

run(g) ==
    IF _program_is_empty(g.s) THEN _cancel_timer(g) ELSE tick(_cancel_timer(g))

\* step_once(): what follows render().
Shown(r) ==
    IF r.a.raised THEN r
    ELSE IF r.status = StepStatus.AWAITING_INPUT THEN _show_input_bar(r)
    ELSE r

\* step_once(): what follows the step().
AfterOneStep(n) == IF n.a.raised THEN n ELSE Shown(render(n))

step_once(g) ==
    IF _program_is_empty(g.s) THEN _cancel_timer(g)
    ELSE AfterOneStep(interp_step(_cancel_timer(g)))

stop(g) == _hide_input_bar(_cancel_timer(g))

\* A slider change that starts a timer whether or not one is held.
_reschedule_always(g) == after_tick(g)

_reschedule_if_running(g) ==
    IF g.a._after # 0
    THEN after_tick([g EXCEPT !.a.timers = @ \ {g.a._after}])
    ELSE g

\* int(text.strip()) for a text without blanks: [raised, val].
RECURSIVE int(_)
int(text) ==
    IF text = <<>> \/ \E i \in 1..Len(text) : text[i] \notin 48..57
    THEN [raised |-> TRUE, val |-> None]
    ELSE IF Len(text) = 1 THEN [raised |-> FALSE, val |-> I(text[1] - 48)]
    ELSE [raised |-> FALSE,
          val |-> add(mul(I(10), int(SubSeq(text, 1, Len(text) - 1)).val),
                      I(text[Len(text)] - 48))]

\* send_input() with the text of the entry.
send_input(g, text) ==
    LET kind == g.s.ip.waiting_for
        val == IF kind = WaitTypes.INT THEN int(text).val
               ELSE IF text # <<>> THEN I(text[1]) ELSE I(10)
    IN  IF kind = WaitTypes.INT /\ int(text).raised THEN g
        ELSE IF kind \notin {WaitTypes.INT, WaitTypes.CHAR} THEN g
        ELSE tick(_hide_input_bar([g EXCEPT !.s = provide_input(g.s, val)]))

_toggle_breakpoint(g, key) ==
    IF key \in g.a.breakpoints
    THEN [g EXCEPT !.a.breakpoints = @ \ {key}]
    ELSE [g EXCEPT !.a.breakpoints = @ \cup {key}]

-----------------------------------------------------------------------------
(* The programs and input values the interpreter is run on. *)

Big == <<0, 1>>

InputValues == {I(7), I(-1), I(300), Big}

\* A value of more than 4300 decimal digits: 10 ** (11 * BigExp).
Huge == Repeat(0, 11) \o <<1>>

Programs ==
    { Text(<<"@">>),
      Text(<<"5", "5", "*", ".", "@">>),
      Text(<<"&", "0", "0", "p", "g", ".", "@">>),
      Text(<<"&", "1", "/", ".", "@">>),
      Text(<<"#", " ", "<">>),
      Text(<<"~", ",", "@">>),
      Text(<<"v", "#", "newline", ">", "^">>) }

\* Programs for division by zero, string mode, glyphs without an opcode,
\* '?', two outputs and a 'p' that needs no input.
OpPrograms ==
    { Text(<<"/", "%", "@">>),
      Text(<<"&", "0", "/", "0", "%", "@">>),
      Text(<<"&", "0", "%", "@">>),
      Text(<<"quote", "#", ">", "p", "&", ".", "quote">>),
      Text(<<"quote", "1", " ", "quote", "@">>),
      Text(<<"a", "superscript two", "@">>),
      Text(<<"?", "@">>),
      Text(<<"1", ",", "2", ".", "@">>),
      Text(<<"1", "0", "0", "p", "@">>) }

\* Sources of every shape (empty, ragged, wider than the minimum) and 'p'
\* writes to cells addressed by negative, too large and input coordinates.
GridPrograms ==
    { Text(<<>>),
      Text(<<"1", "-", ":", "p", "@", "newline", "1">>),
      Repeat(32, 80) \o Text(<<"@">>),
      Text(<<"7", "9", "9", "*", ":", "p">>),
      Text(<<"7", "9", "2", "p", "@">>),
      Text(<<"&", ":", "p", "@">>) }

\* '@' in a string, the swap and the binary operators on stacks of every
\* size.
StepPrograms ==
    { Text(<<"quote", "@">>),
      Text(<<"backslash", "@">>),
      Text(<<"1", "backslash", "@">>),
      Text(<<"1", "2", "backslash", "@">>),
      Text(<<"7", "1", "2", "backslash", "@">>),
      Text(<<"5", "3", "-", ".", "@">>),
      Text(<<"1", "5", "3", "-", "@">>),
      Text(<<"5", "-", "3", "+", "@">>),
      Text(<<"-", "+", "*", "@">>),
      Text(<<"3", "4", "+", "@">>),
      Text(<<"3", "4", "*", "@">>),
      Text(<<"4", "*", "@">>),
      Text(<<"_", "@">>),
      Text(<<"1", "_", "@">>),
      Text(<<"0", "_", "@">>),
      Text(<<"|", "@">>),
      Text(<<"1", "|", "@">>),
      Text(<<"0", "|", "@">>),
      Text(<<"<", "@">>),
      Text(<<"^", "@">>),
      Text(<<">", "@">>),
      Text(<<"v", "newline", "<">>) }

\* The output opcodes on every kind of value, and a bridge that lands on an
\* input opcode.
IoPrograms ==
    { Text(<<"&", ".", "@">>),
      Text(<<"&", ",", "@">>),
      Text(<<".", ",", "@">>),
      Text(<<"#", "@", "&", ".", "@">>) }

\* The programs the App is given, the empty one among them, the texts typed
\* into its entry ("7", "x" and nothing) and the cells clicked.
GuiPrograms ==
    { Text(<<>>),
      Text(<<"@">>),
      Text(<<"1", "2", ".", "@">>),
      Text(<<"&", ".", "@">>),
      Text(<<"~", ",", "@">>) }

EntryTexts == {<<55>>, <<120>>, <<>>}

ClickedCells == {<<0, 0>>, <<1, 0>>}

-----------------------------------------------------------------------------
(* The state machine: one action per public operation. *)

State == [ip |-> ip, stack |-> stack, output |-> output, halted |-> halted]

NoPuts == [c \in {} |-> None]

\* What a step() records in puts: the value popped by a 'p' that wrote.
PutsAfter(s, ch) ==
    IF ~InputReady(s) /\ ~s.ip.string /\ ch = 112
    THEN LET t == Target(s)
         IN  (<<t.col, t.row>> :> _pop_or_zero(t.items).ret) @@ puts
    ELSE puts

\* Interpreter(code), and load(code), for each of the programs.
Loaded ==
    [code \in Programs \cup OpPrograms \cup GridPrograms \cup StepPrograms
               \cup IoPrograms \cup GuiPrograms |->
        load(splitlines(code))]

\* The state after Interpreter(code).
StartWith(code, a) ==
    LET s == Loaded[code]
    IN  /\ ip = s.ip
        /\ stack = s.stack
        /\ output = s.output
        /\ halted = s.halted
        /\ op = "load"
        /\ status = "none"
        /\ cell = -1
        /\ arg = None
        /\ puts = NoPuts
        /\ source = code
        /\ ret = None
        /\ nsteps = 0
        /\ ninputs = 0
        /\ nreloads = 0
        /\ snapshot = NoSnapshot
        /\ app = a

\* The state after Interpreter(code), with no App.
Start(code) == StartWith(code, NoApp)

Init == \E code \in Programs : Start(code)

Load ==
    \E code \in Programs :
        LET s == Loaded[code]
        IN  /\ ip' = s.ip
            /\ stack' = s.stack
            /\ output' = s.output
            /\ halted' = s.halted
            /\ op' = "load"
            /\ status' = "none"
            /\ cell' = -1
            /\ arg' = None
            /\ puts' = NoPuts
            /\ source' = code
            /\ nsteps' = 0
            /\ ninputs' = 0
            /\ nreloads' = 0
            /\ snapshot' = Detached(snapshot)
            /\ UNCHANGED app
            /\ UNCHANGED ret

Reset ==
    LET s == reset(State)
    IN  /\ nreloads < MaxReloads
        /\ ip' = s.ip
        /\ stack' = s.stack
        /\ output' = s.output
        /\ halted' = s.halted
        /\ op' = "reset"
        /\ status' = "none"
        /\ cell' = -1
        /\ arg' = None
        /\ puts' = NoPuts
        /\ nreloads' = nreloads + 1
        /\ snapshot' = Detached(snapshot)
        /\ UNCHANGED app
        /\ UNCHANGED <<source, ret, nsteps, ninputs>>

Provide(values) ==
    \E value \in values :
        LET s == provide_input(State, value)
        IN  /\ ninputs < MaxInputs
            /\ ip' = s.ip
            /\ op' = "provide_input"
            /\ arg' = value
            /\ ninputs' = ninputs + 1
            /\ UNCHANGED <<stack, output, halted, status, cell, puts, source,
                           ret, nsteps, nreloads, snapshot, app>>

ProvideInput == Provide(InputValues)

ProvideAnyInput == Provide(InputValues \cup {Huge})

Step ==
    \E r \in {step(State)} :
        /\ nsteps < MaxSteps
        /\ ip' = r.s.ip
        /\ stack' = r.s.stack
        /\ output' = r.s.output
        /\ halted' = r.s.halted
        /\ op' = "step"
        /\ status' = r.status
        /\ cell' = r.cell
        /\ puts' = PutsAfter(State, r.cell)
        /\ nsteps' = nsteps + 1
        /\ snapshot' = Seen(snapshot, r.s.ip.grid)
        /\ UNCHANGED app
        /\ UNCHANGED <<arg, source, ret, ninputs, nreloads>>

Next == Step \/ ProvideInput \/ Load \/ Reset

Spec == Init /\ [][Next]_vars

\* The interpreter constructed on one of OpPrograms, then stepped, given
\* input and reset.
OpInit == \E code \in OpPrograms : Start(code)

OpNext == Step \/ ProvideInput \/ Reset

OpSpec == OpInit /\ [][OpNext]_vars

\* The interpreter constructed on one of GridPrograms.
GridInit == \E code \in GridPrograms : Start(code)

GridNext == Step \/ ProvideInput \/ Reset

GridSpec == GridInit /\ [][GridNext]_vars

\* The interpreter constructed on one of StepPrograms, which need no input.
StepInit == \E code \in StepPrograms : Start(code)

StepNext == Step \/ Reset

StepSpec == StepInit /\ [][StepNext]_vars

\* The interpreter constructed on one of IoPrograms; provide_input is also
\* called with a value beyond the limit of str().
IoInit == \E code \in IoPrograms : Start(code)

IoNext == Step \/ ProvideAnyInput \/ Reset

IoSpec == IoInit /\ [][IoNext]_vars

\* The App constructed on Interpreter(code) for one of GuiPrograms.
GuiInit == \E code \in GuiPrograms : StartWith(code, NewApp)

Gui == [s |-> State, a |-> app, puts |-> puts, status |-> status, cell |-> cell]

\* A callback of the App has run and left g.
Callback(name, g) ==
    /\ ip' = g.s.ip
    /\ stack' = g.s.stack
    /\ output' = g.s.output
    /\ halted' = g.s.halted
    /\ app' = g.a
    /\ op' = name
    /\ status' = g.status
    /\ cell' = g.cell
    /\ puts' = g.puts
    /\ nsteps' = nsteps + g.a.stepped
    /\ snapshot' = Seen(snapshot, g.s.ip.grid)
    /\ UNCHANGED <<source, ret, ninputs, nreloads>>

Run ==
    /\ nsteps < MaxSteps
    /\ arg' = arg
    /\ \E g \in {run(Entered(Gui))} : Callback("run", g)

StepOnce ==
    /\ nsteps < MaxSteps
    /\ arg' = arg
    /\ \E g \in {step_once(Entered(Gui))} : Callback("step_once", g)

Stop == arg' = arg /\ Callback("stop", stop(Entered(Gui)))

SendInput ==
    \E text \in EntryTexts :
        /\ nsteps < MaxSteps
        /\ arg' = text
        /\ \E g \in {send_input(Entered(Gui), text)} : Callback("send_input", g)

\* The delay slider is moved.
DelayChange ==
    /\ app.ids < MaxTimers
    /\ arg' = arg
    /\ Callback("delay_change", _reschedule_if_running(Entered(Gui)))

\* The steps-per-tick slider is moved.
StepsChange ==
    \E n \in 1..MaxStepsPerTick :
        /\ arg' = arg
        /\ Callback("steps_change", [Entered(Gui) EXCEPT !.a.steps_per_tick = n])

\* A Ctrl-click on a cell inside the original size of the program.
ToggleBreakpoint ==
    \E key \in ClickedCells :
        /\ key[1] < ip.orig_width /\ key[2] < ip.orig_height
        /\ arg' = arg
        /\ Callback("toggle_breakpoint", _toggle_breakpoint(Entered(Gui), key))

\* The callbacks of the App.  Tk would also call tick() for a timer the App
\* holds; no callback leaves one (app.timers is empty in every state), so
\* no such step exists.
GuiNext ==
    Run \/ StepOnce \/ Stop \/ SendInput \/ DelayChange \/ StepsChange
        \/ ToggleBreakpoint

GuiSpec == GuiInit /\ [][GuiNext]_vars

-----------------------------------------------------------------------------
(* The Stack class on its own: its methods called on every small stack. *)

StackValues == {I(0), I(5), I(-3)}

SmallStacks == UNION {[1..n -> StackValues] : n \in 0..MaxLen}

StackInit ==
    /\ stack \in SmallStacks
    /\ op = "new"
    /\ ret = None
    /\ ip = NewIP(<<>>)
    /\ output = <<>>
    /\ halted = FALSE
    /\ status = "none"
    /\ cell = -1
    /\ arg = None
    /\ puts = NoPuts
    /\ source = <<>>
    /\ nsteps = 0
    /\ ninputs = 0
    /\ nreloads = 0
    /\ snapshot = NoSnapshot
    /\ app = NoApp

\* A call of a Stack method: the items and the returned value it leaves.
Called(name, r) ==
    /\ stack' = r.items
    /\ ret' = r.ret
    /\ op' = name
    /\ UNCHANGED <<ip, output, halted, status, cell, arg, puts, source,
                   nsteps, ninputs, nreloads, snapshot, app>>

CallPush ==
    \E v \in StackValues :
        /\ Len(stack) < MaxLen
        /\ Called("push", [items |-> push(stack, v), ret |-> None])

CallPop == Called("pop", pop(stack))

CallPeek == Called("peek", peek(stack))

CallPopTwo == Called("pop_two", pop_two(stack))

CallSwap == Called("stack_swap", stack_swap(stack))

StackNext == CallPush \/ CallPop \/ CallPeek \/ CallPopTwo \/ CallSwap

StackSpec == StackInit /\ [][StackNext]_vars

-----------------------------------------------------------------------------
(* trunc_div and c_mod on their own: called on every pair <<a, b>> of the   *)
(* values below, kept in stack.                                              *)

ArithValues ==
    {I(0), I(1), I(3), I(-3), I(7), I(-7), Big, sub(Big, I(1))}

ArithInit ==
    /\ stack \in {<<a, b>> : a \in ArithValues, b \in ArithValues}
    /\ op = "new"
    /\ ret = None
    /\ ip = NewIP(<<>>)
    /\ output = <<>>
    /\ halted = FALSE
    /\ status = "none"
    /\ cell = -1
    /\ arg = None
    /\ puts = NoPuts
    /\ source = <<>>
    /\ nsteps = 0
    /\ ninputs = 0
    /\ nreloads = 0
    /\ snapshot = NoSnapshot
    /\ app = NoApp

CallTruncDiv ==
    Called("trunc_div", [items |-> stack, ret |-> trunc_div(stack[1], stack[2])])

CallCMod ==
    Called("c_mod", [items |-> stack, ret |-> c_mod(stack[1], stack[2])])

ArithNext == CallTruncDiv \/ CallCMod

ArithSpec == ArithInit /\ [][ArithNext]_vars

-----------------------------------------------------------------------------
(* InstructionPointer.move on its own: called again and again from a start  *)
(* cell, kept in arg, with the direction held fixed and skip not set.        *)

\* A new IP on the minimum 80 x 25 grid and one on an 81 x 26 grid.
MoveIPs == {NewIP(<<>>), NewIP([r \in 1..26 |-> Repeat(32, 81)])}

MoveStarts == {<<0, 0>>, <<5, 3>>, <<79, 24>>}

MoveInit ==
    /\ \E p \in MoveIPs, c \in MoveStarts, d \in Directions :
          /\ ip = [p EXCEPT !.x = c[1], !.y = c[2], !.direction = d]
          /\ arg = c
    /\ op = "new"
    /\ ret = None
    /\ stack = <<>>
    /\ output = <<>>
    /\ halted = FALSE
    /\ status = "none"
    /\ cell = -1
    /\ puts = NoPuts
    /\ source = <<>>
    /\ nsteps = 0
    /\ ninputs = 0
    /\ nreloads = 0
    /\ snapshot = NoSnapshot
    /\ app = NoApp

CallMove ==
    /\ nsteps < MaxMoves
    /\ ip' = move(ip)
    /\ ret' = <<ip'.x, ip'.y>>
    /\ op' = "move"
    /\ nsteps' = nsteps + 1
    /\ UNCHANGED <<stack, output, halted, status, cell, arg, puts, source,
                   ninputs, nreloads, snapshot, app>>

MoveNext == CallMove

MoveSpec == MoveInit /\ [][MoveNext]_vars

-----------------------------------------------------------------------------
(* A client that takes a ViewState, lets the interpreter run and changes    *)
(* the lists of the ViewState it holds.                                     *)

ViewPrograms ==
    { Text(<<"1", "0", "0", "p", "@">>),
      Text(<<"1", ",", "2", ".", "@">>) }

ViewInit == \E code \in ViewPrograms : Start(code)

View ==
    /\ snapshot' = view(State)
    /\ UNCHANGED app
    /\ op' = "view"
    /\ UNCHANGED <<ip, stack, output, halted, status, cell, arg, puts, source,
                   ret, nsteps, ninputs, nreloads>>

\* snapshot.grid[0][1] = '@' by the client.
SetViewCell ==
    /\ snapshot.taken
    /\ snapshot' = [snapshot EXCEPT !.v.grid[1][2] = 64]
    /\ UNCHANGED app
    /\ ip' = IF snapshot.alias THEN [ip EXCEPT !.grid[1][2] = 64] ELSE ip
    /\ op' = "set_view_cell"
    /\ UNCHANGED <<stack, output, halted, status, cell, arg, puts, source,
                   ret, nsteps, ninputs, nreloads>>

\* snapshot.stack.append(9) by the client.
AppendViewStack ==
    /\ snapshot.taken
    /\ Len(snapshot.v.stack) < MaxLen
    /\ snapshot' = [snapshot EXCEPT !.v.stack = Append(@, I(9))]
    /\ UNCHANGED app
    /\ op' = "append_view_stack"
    /\ UNCHANGED <<ip, stack, output, halted, status, cell, arg, puts, source,
                   ret, nsteps, ninputs, nreloads>>

ViewNext == Step \/ Reset \/ View \/ SetViewCell \/ AppendViewStack

ViewSpec == ViewInit /\ [][ViewNext]_vars

-----------------------------------------------------------------------------
(* Properties.  A step that "is on" a character is a step() call that reads *)
(* the cell under the IP (cell' is that character); the call that delivers  *)
(* a buffered input returns before reading the cell (cell' = -1).           *)

PosInRange ==
    /\ 0 <= ip.x /\ ip.x < ip.width
    /\ 0 <= ip.y /\ ip.y < ip.height

\* The number of cells the move() of a step advances: two after a bridge.
Cells == IF cell' = 35 /\ ~ip.string THEN 2 ELSE 1

WrapStep ==
    (op' = "step" /\ status' = "RUNNING") =>
        /\ ip'.x = (ip.x + Cells * dx(ip'.direction)) % ip.width
        /\ ip'.y = (ip.y + Cells * dy(ip'.direction)) % ip.height

\* C1: in every reachable state 0 <= x < width and 0 <= y < height, and a
\* step that moves lands on the cell one (after a bridge, two) ahead modulo
\* width/height: a move across an edge wraps, it is not clamped or refused.
C1_PositionWraps == []PosInRange /\ [][WrapStep]_vars

\* A bridge executed on the way left has carried the IP across the left edge.
C1_Witness ==
    /\ op = "step" /\ cell = 35 /\ status = "RUNNING"
    /\ ip.direction = "LEFT" /\ ip.x = ip.width - 2

HaltStep ==
    (op' = "step" /\ cell' = 64 /\ ~ip.string) =>
        /\ halted' /\ status' = "HALTED"
        /\ ip' = ip /\ stack' = stack /\ output' = output

FirstStepOfAt ==
    (source = Text(<<"@">>) /\ nsteps = 1 /\ ninputs = 0 /\ nreloads = 0) =>
        /\ status = "HALTED" /\ stack = <<>> /\ output = <<>>

\* C2: a step that reads '@' outside string mode sets halted, returns HALTED
\* and leaves the IP (position, direction, grid), the stack and the output
\* as they were; the first step of the program "@" returns HALTED with an
\* empty stack and an empty output.
C2_HaltOnAt == []FirstStepOfAt /\ [][HaltStep]_vars

C2_Witness ==
    /\ op = "step" /\ cell = 64 /\ ~ip.string /\ status = "HALTED" /\ halted
    /\ source = Text(<<"@">>) /\ nsteps = 1

AwaitStep ==
    (op' = "step" /\ cell' \in {38, 126} /\ ~ip.string) =>
        /\ status' = "AWAITING_INPUT"
        /\ ip' = [ip EXCEPT !.waiting_for = IF cell' = 38 THEN "int" ELSE "char"]
        /\ stack' = stack /\ output' = output /\ halted' = halted

\* C3: a step that reads '&' or '~' outside string mode sets waiting_for to
\* the integer or the character kind, returns AWAITING_INPUT, pushes nothing
\* and does not move: position, direction, grid, stack and output are kept.
C3_AwaitDoesNotMove == [][AwaitStep]_vars

C3_Witness ==
    /\ op = "step" /\ cell = 126 /\ status = "AWAITING_INPUT"
    /\ ip.waiting_for = "char" /\ ip.x = 0 /\ ip.y = 0 /\ stack = <<>>

ProvideStores ==
    (op' = "provide_input") =>
        /\ ip'.pending_input = arg' /\ ip'.waiting_for = "None"

DeliverStep ==
    (status = "AWAITING_INPUT" /\ op = "provide_input" /\ op' = "step") =>
        /\ stack' = Append(stack, arg)
        /\ ip'.pending_input = None
        /\ cell' = -1
        /\ ip'.x = (ip.x + dx(ip.direction)) % ip.width
        /\ ip'.y = (ip.y + dy(ip.direction)) % ip.height
        /\ ip'.grid = ip.grid /\ ip'.direction = ip.direction
        /\ output' = output
        /\ status' = "RUNNING"

AfterDelivery == (op = "step" /\ cell = -1 /\ op' = "step") => cell' # -1

\* C4: provide_input(v) after an AWAITING_INPUT stores v as pending_input
\* and clears waiting_for; the next step pushes exactly v, clears the
\* pending input, moves one cell past the input opcode without reading it
\* again and returns RUNNING; the step after that reads its cell as usual.
C4_InputDelivered == [][ProvideStores /\ DeliverStep /\ AfterDelivery]_vars

C4_Witness ==
    /\ op = "step" /\ cell = -1 /\ status = "RUNNING"
    /\ nsteps = 2 /\ ninputs = 1 /\ nreloads = 0
    /\ stack = <<I(300)>> /\ ip.x = 1 /\ ip.pending_input = None

\* C5: once a step has returned HALTED, a later step returns HALTED again
\* and changes neither the stack, the IP position, the output nor the grid,
\* whatever provide_input calls come in between.
C5_HaltedIsTerminal ==
    [][(status = "HALTED" /\ op' = "step") =>
          /\ status' = "HALTED"
          /\ stack' = stack /\ output' = output
          /\ ip'.x = ip.x /\ ip'.y = ip.y /\ ip'.grid = ip.grid]_vars

\* C6: a 'g' at a cell whose latest write was a 'p' of the value v pushes
\* exactly v, for every integer v.
C6_PutGetRoundTrip ==
    [][(op' = "step" /\ cell' = 103 /\ ~ip.string
          /\ <<Target(State).col, Target(State).row>> \in DOMAIN puts) =>
          stack'[Len(stack')] = puts[<<Target(State).col, Target(State).row>>]]_vars

InByte(v) == Len(Norm(v)) = 1 /\ Norm(v)[1] \in 0..255

\* C7: a cell has an extended-storage entry if and only if its latest 'p'
\* write had a value outside 0..255.
C7_ExtendedStorageIff ==
    DOMAIN ExtendedStorage = {c \in DOMAIN puts : ~InByte(puts[c])}

ResetStep ==
    (op' = "reset") =>
        /\ ip'.grid = ip.grid
        /\ stack' = <<>> /\ output' = <<>> /\ ~halted'
        /\ ip'.x = 0 /\ ip'.y = 0 /\ ip'.direction = "RIGHT"
        /\ ~ip'.skip /\ ~ip'.string
        /\ ip'.waiting_for = "None" /\ ip'.pending_input = None

\* C8: reset() keeps every cell of the current grid, the cells changed by
\* 'p' included, and re-initialises the rest: stack and output empty, IP at
\* (0,0) facing RIGHT, skip and string mode off, nothing awaited or pending,
\* halted false.
C8_ResetKeepsGrid == [][ResetStep]_vars

\* A reset of a grid that a 'p' has made differ from the loaded source.
C8_Witness ==
    /\ op = "reset" /\ nreloads = 1
    /\ ip.grid # Loaded[source].ip.grid

PopEmpty ==
    (op' \in {"pop", "peek"} /\ stack = <<>>) => (ret' = I(0) /\ stack' = <<>>)

PopTwoCases ==
    (op' = "pop_two") =>
        LET n == Len(stack)
        IN  /\ n = 0 => (ret' = <<I(0), I(0)>> /\ stack' = <<>>)
            /\ n = 1 => (ret' = <<stack[1], I(0)>> /\ stack' = <<>>)
            /\ n >= 2 => /\ ret' = <<stack[n], stack[n - 1]>>
                         /\ stack' = SubSeq(stack, 1, n - 2)

\* C9: pop() and peek() on an empty stack return 0 and leave it empty;
\* pop_two() returns (0,0) on an empty stack, (v,0) on [v], which it
\* empties, and (top, next) on a larger stack, removing both.
C9_Underflow == [][PopEmpty /\ PopTwoCases]_vars

C9_Witness == op = "pop_two" /\ ret = <<I(5), I(0)>> /\ stack = <<>>

\* C10: every step() call returns one of RUNNING, AWAITING_INPUT, HALTED and
\* raises no error.
C10_StepTotal ==
    op = "step" => status \in {"RUNNING", "AWAITING_INPUT", "HALTED"}

ZeroDivisor ==
    \A a \in ArithValues :
        /\ trunc_div(a, I(0)) = [raised |-> FALSE, val |-> I(0)]
        /\ c_mod(a, I(0)) = [raised |-> FALSE, val |-> I(0)]

DivByZeroStep ==
    (/\ op' = "step" /\ cell' \in {47, 37} /\ ~ip.string
     /\ (stack = <<>> \/ IsZero(stack[Len(stack)]))) =>
        /\ status' = "RUNNING"
        /\ stack' = Append(SubSeq(stack, 1, Max(Len(stack) - 2, 0)), I(0))
        /\ ip'.x = (ip.x + dx(ip.direction)) % ip.width
        /\ ip'.y = (ip.y + dy(ip.direction)) % ip.height

\* C11: trunc_div(a, 0) = 0 and c_mod(a, 0) = 0 for every a, without an
\* error; a step that reads '/' or '%' outside string mode with a zero on top
\* of the stack (or an empty stack) pushes 0 in place of the operands, moves
\* the IP one cell and returns RUNNING.
C11_DivisionByZero == []ZeroDivisor /\ [][DivByZeroStep]_vars

\* The input 10**400 has been divided by zero.
C11_Witness ==
    /\ op = "step" /\ cell = 47 /\ status = "RUNNING"
    /\ arg = Big /\ stack = <<I(0)>> /\ nsteps = 4 /\ nreloads = 0

Abs(a) == IF Sign(a) < 0 THEN sub(I(0), a) ELSE Norm(a)

\* q and r are the quotient of a by b rounded toward zero and its remainder.
DivModLaw(a, b, q, r) ==
    /\ add(mul(q, b), r) = Norm(a)
    /\ IsZero(r) \/ Sign(r) = Sign(a)
    /\ Greater(Abs(b), Abs(r))

\* C12: for b # 0, trunc_div(a, b) and c_mod(a, b) return without an error,
\* trunc_div(a, b) * b + c_mod(a, b) = a, trunc_div(a, b) is the quotient
\* rounded toward zero, and c_mod(a, b) is zero or has the sign of a.
C12_TruncDivCMod ==
    [][(op' \in {"trunc_div", "c_mod"} /\ ~IsZero(stack[2])) =>
          LET a == stack[1]
              b == stack[2]
              q == trunc_div(a, b)
              r == c_mod(a, b)
          IN  /\ ~ret'.raised
              /\ ~q.raised /\ ~r.raised
              /\ DivModLaw(a, b, q.val, r.val)]_vars

BridgeStep ==
    (op' = "step" /\ cell' = 35 /\ ~ip.string) =>
        /\ status' = "RUNNING"
        /\ ip'.x = (ip.x + 2 * dx(ip.direction)) % ip.width
        /\ ip'.y = (ip.y + 2 * dy(ip.direction)) % ip.height
        /\ ip' = [ip EXCEPT !.x = ip'.x, !.y = ip'.y]
        /\ stack' = stack /\ output' = output /\ halted' = halted

\* The step after a bridge reads the cell the bridge landed on and, when it
\* moves and is not a bridge itself, moves one cell.
AfterBridge ==
    (/\ op = "step" /\ cell = 35 /\ ~ip.string
     /\ op' = "step" /\ cell' # -1) =>
        /\ cell' = ip.grid[ip.y + 1][ip.x + 1]
        /\ (status' = "RUNNING" /\ cell' # 35) =>
               /\ ip'.x = (ip.x + dx(ip'.direction)) % ip.width
               /\ ip'.y = (ip.y + dy(ip'.direction)) % ip.height

\* C13: a step that reads '#' outside string mode leaves the IP two cells
\* ahead in its direction modulo width/height and changes nothing else (the
\* skip flag is clear again); the next step reads the landing cell, not the
\* skipped one, and its move advances one cell.
C13_Bridge == []~ip.skip /\ [][BridgeStep /\ AfterBridge]_vars

\* A bridge executed on the way up has carried the IP across the top edge.
C13_Witness ==
    /\ op = "step" /\ cell = 35 /\ status = "RUNNING" /\ ~ip.string
    /\ ip.direction = "UP" /\ ip.x = 1 /\ ip.y = ip.height - 2

\* The number of moves after which the IP is back: the extent of the grid
\* along the direction of travel.
Period == IF ip.direction \in {"RIGHT", "LEFT"} THEN ip.width ELSE ip.height

\* C14: after k > 0 consecutive move() calls in a fixed direction the IP is
\* on its starting cell exactly when k is a multiple of the width
\* (horizontal) or of the height (vertical): it returns after exactly that
\* many moves and after no smaller positive number.
C14_Toroidal ==
    (op = "move" /\ nsteps > 0) =>
        ((<<ip.x, ip.y>> = arg) <=> (nsteps % Period = 0))

C14_Witness ==
    /\ op = "move" /\ nsteps = ip.width /\ ip.width = 81
    /\ ip.direction = "LEFT" /\ arg = <<5, 3>> /\ <<ip.x, ip.y>> = arg

\* The IP after a move of one cell with nothing else changed.
OneAhead(p) ==
    [p EXCEPT !.x = (p.x + dx(p.direction)) % p.width,
              !.y = (p.y + dy(p.direction)) % p.height]

ToggleStep ==
    (op' = "step" /\ cell' = 34) =>
        /\ status' = "RUNNING"
        /\ ip' = [OneAhead(ip) EXCEPT !.string = ~ip.string]
        /\ stack' = stack /\ output' = output /\ halted' = halted

StringPushStep ==
    (op' = "step" /\ ip.string /\ cell' \notin {-1, 34, 64}) =>
        /\ status' = "RUNNING"
        /\ stack' = Append(stack, I(cell'))
        /\ ip' = OneAhead(ip)
        /\ output' = output /\ halted' = halted

\* C15: a step that reads the string delimiter toggles string mode, pushes
\* nothing, moves and returns RUNNING; in string mode a step that reads any
\* character other than the delimiter and '@' pushes its code, moves one
\* cell, returns RUNNING and has no other effect (direction, skip, grid,
\* output and waiting state are kept).
C15_StringMode == [][ToggleStep /\ StringPushStep]_vars

\* The '&' of a string has been pushed as 38 and no input is awaited.
C15_Witness ==
    /\ op = "step" /\ cell = 38 /\ status = "RUNNING" /\ ip.string
    /\ stack = <<I(35), I(62), I(112), I(38)>>
    /\ ip.waiting_for = "None" /\ ip.direction = "RIGHT" /\ ip.x = 5

\* The characters with an entry in the opcode table.
OpcodeGlyphs ==
    {43, 45, 42, 47, 37, 96, 33, 112, 103, 38, 126, 95, 124, 58, 92, 36, 46,
     44, 62, 60, 94, 118, 63, 35}

NoOpStep ==
    (/\ op' = "step" /\ ~ip.string /\ cell' # -1
     /\ cell' \notin OpcodeGlyphs \cup (48..57) \cup {32, 34, 64}) =>
        /\ status' = "RUNNING"
        /\ ip' = OneAhead(ip)
        /\ stack' = stack /\ output' = output /\ halted' = halted

DigitStep ==
    (op' = "step" /\ ~ip.string /\ cell' \in 48..57) =>
        stack' = Append(stack, I(cell' - 48))

\* C16: outside string mode a step that reads a character without an entry
\* in the opcode table, other than a digit '0'..'9', the space, the string
\* delimiter and '@', changes nothing but the IP position, which advances
\* one cell, and returns RUNNING; a step that reads '0'..'9' pushes 0..9.
C16_SilentNoOp == [][NoOpStep /\ DigitStep]_vars

\* C17: a step that reads '?' outside string mode sets the direction to one
\* of the four cardinal directions, sets last_was_random, and moves one cell
\* in the direction it has set.
C17_RandomDirection ==
    [][(op' = "step" /\ cell' = 63 /\ ~ip.string) =>
          /\ ip'.direction \in Directions
          /\ ip'.last_was_random
          /\ ip'.x = (ip.x + dx(ip'.direction)) % ip.width
          /\ ip'.y = (ip.y + dy(ip'.direction)) % ip.height]_vars

IsPrefix(a, b) == Len(a) <= Len(b) /\ SubSeq(b, 1, Len(a)) = a

OutputStep ==
    (op' = "step") =>
        /\ IsPrefix(output, output')
        /\ output' # output => (cell' \in {46, 44} /\ ~ip.string)

\* C18: the output after a step has the output before it as a prefix, and
\* differs from it only when the step has read '.' or ',' outside string
\* mode; provide_input leaves the output alone.
C18_OutputAppendOnly ==
    [][OutputStep /\ (op' = "provide_input" => output' = output)]_vars

\* A second output has been appended to the first.
C18_Witness ==
    /\ op = "step" /\ cell = 46 /\ output = <<1, 50>> /\ stack = <<>>

\* C19: the grid revision read from the interpreter is a number that is
\* strictly larger after every load, every reset and every step that writes
\* the grid than before it, and the same after every other step.
C19_GridRevision ==
    [][LET before == grid_rev(State)
           after == grid_rev(State)'
       IN  /\ ~before.raised /\ ~after.raised
           /\ (op' \in {"load", "reset"} \/ ip'.grid # ip.grid) =>
                  after.val > before.val
           /\ (op' = "step" /\ ip'.grid = ip.grid) => after.val = before.val]_vars

\* C20: the ViewState returned by view() holds the position, direction
\* glyph, stack, output and grid of the interpreter at the call; it keeps
\* those values through every later step and reset, and a change of its
\* stack or grid by the client leaves the interpreter as it was.
C20_ViewIsCopy ==
    [][/\ (op' = "view") =>
              snapshot'.v = [ip_x |-> ip.x, ip_y |-> ip.y,
                             direction |-> glyph(ip.direction),
                             stack |-> stack, output |-> output,
                             grid |-> ip.grid]
       /\ (op' \in {"step", "reset"} /\ snapshot.taken) =>
              snapshot'.v = snapshot.v
       /\ (op' \in {"set_view_cell", "append_view_stack"}) =>
              (ip' = ip /\ stack' = stack)]_vars

\* The cell (c, r), counted from 0, lies outside the text of the source.
Padding(c, r) ==
    LET lines == splitlines(source)
    IN  r + 1 > Len(lines) \/ c + 1 > Len(lines[r + 1])

GridShape ==
    /\ ip.width = Loaded[source].ip.width /\ ip.width >= 80
    /\ ip.height = Loaded[source].ip.height /\ ip.height >= 25
    /\ Len(ip.grid) = ip.height
    /\ \A r \in 1..Len(ip.grid) :
          /\ Len(ip.grid[r]) = ip.width
          /\ \A c \in 1..Len(ip.grid[r]) : ip.grid[r][c] \in 0..255
    /\ op = "load" =>
          \A r \in 0..(ip.height - 1), c \in 0..(ip.width - 1) :
              Padding(c, r) => ip.grid[r + 1][c + 1] = 32

\* A cell changes only in a step that reads 'p' outside string mode, and
\* then it is the cell the 'p' addresses.
OnlyPutWrites ==
    \A r \in 1..Len(ip.grid) :
        ip'.grid[r] # ip.grid[r] =>
            /\ op' = "step" /\ cell' = 112 /\ ~ip.string
            /\ r = Target(State).row + 1
            /\ \A c \in 1..ip.width :
                  ip'.grid[r][c] # ip.grid[r][c] => c = Target(State).col + 1

\* C21: for every source, the empty and the ragged one included, and in
\* every reachable state, width and height are those fixed at construction,
\* at least 80 and 25, every row has width cells of one character each, and
\* a cell outside the source text holds a space until a 'p' writes it.
C21_GridShape == []GridShape /\ [][OnlyPutWrites]_vars

\* A 'p' has written the last cell of the grid of a ragged source.
C21_Witness ==
    /\ op = "step" /\ cell = 112
    /\ source = Text(<<"1", "-", ":", "p", "@", "newline", "1">>)
    /\ ip.grid[25][80] = 0 /\ Len(ip.grid[2]) = 80 /\ ip.grid[2][2] = 32

\* The run of "55*.@" from its load, with no input given and no reset.
RunOf25 ==
    /\ source = Text(<<"5", "5", "*", ".", "@">>)
    /\ ninputs = 0 /\ nreloads = 0

\* C22: the program "55*.@" halts: its first four step() calls return
\* RUNNING and the fifth returns HALTED, with the output exactly "25" and
\* the stack empty.
C22_Prints25AndHalts ==
    RunOf25 =>
        /\ nsteps \in 1..4 => (status = "RUNNING" /\ ~halted)
        /\ nsteps = 5 =>
              /\ status = "HALTED" /\ halted
              /\ output = Text(<<"2", "5">>) /\ stack = <<>>

C22_Witness == RunOf25 /\ op = "step" /\ nsteps = 5 /\ status = "HALTED"

\* C23: in string mode a step that reads '@' does not halt: it pushes 64,
\* leaves halted false, moves one cell and returns RUNNING.
C23_AtInString ==
    [][(op' = "step" /\ cell' = 64 /\ ip.string) =>
          /\ status' = "RUNNING" /\ ~halted'
          /\ stack' = Append(stack, I(64))
          /\ ip' = OneAhead(ip)]_vars

\* C24: while no input is provided, a step() after one that returned
\* AWAITING_INPUT returns AWAITING_INPUT again and leaves the stack, the IP
\* (position, direction, grid), the output and halted unchanged.
C24_StaysSuspended ==
    [][(op = "step" /\ status = "AWAITING_INPUT" /\ op' = "step") =>
          /\ status' = "AWAITING_INPUT"
          /\ stack' = stack /\ ip' = ip
          /\ output' = output /\ halted' = halted]_vars

\* The third step() in a row on the '&' that opens "&1/.@".
C24_Witness ==
    /\ op = "step" /\ status = "AWAITING_INPUT" /\ cell = 38
    /\ source = Text(<<"&", "1", "/", ".", "@">>)
    /\ nsteps = 3 /\ ninputs = 0 /\ nreloads = 0
    /\ ip.x = 0 /\ ip.waiting_for = "int" /\ stack = <<>>

\* The k-th value from the top of the stack, 0 where the stack is shorter,
\* and the stack below its k top values.
FromTop(k) == IF Len(stack) >= k THEN stack[Len(stack) - k + 1] ELSE I(0)

Below(k) == SubSeq(stack, 1, Max(Len(stack) - k, 0))

\* C25: stack_swap() exchanges the top two values of a stack of two or more
\* and leaves the ones below; it turns [v] into [v, 0], 0 on top, and the
\* empty stack into [0, 0].
C25_StackSwap ==
    [][(op' = "stack_swap") =>
          /\ Len(stack) >= 2 => stack' = Below(2) \o <<FromTop(1), FromTop(2)>>
          /\ Len(stack) = 1 => stack' = <<stack[1], I(0)>>
          /\ Len(stack) = 0 => stack' = <<I(0), I(0)>>]_vars

\* C26: a step that reads the swap opcode outside string mode exchanges the
\* top two values of a stack of two or more, turns [v] into [v, 0] and the
\* empty stack into [0, 0]; the IP moves one cell and the step returns
\* RUNNING.
C26_SwapStep ==
    [][(op' = "step" /\ cell' = 92 /\ ~ip.string) =>
          /\ Len(stack) >= 2 => stack' = Below(2) \o <<FromTop(1), FromTop(2)>>
          /\ Len(stack) = 1 => stack' = <<stack[1], I(0)>>
          /\ Len(stack) = 0 => stack' = <<I(0), I(0)>>
          /\ ip' = OneAhead(ip) /\ status' = "RUNNING"]_vars

\* a OP b for the operator characters '+', '-' and '*'.
Apply(ch, a, b) ==
    CASE ch = 43 -> add(a, b)
      [] ch = 45 -> sub(a, b)
      [] ch = 42 -> mul(a, b)

BinStep ==
    (op' = "step" /\ cell' \in {43, 45, 42} /\ ~ip.string) =>
        /\ stack' = Append(Below(2), Apply(cell', FromTop(2), FromTop(1)))
        /\ status' = "RUNNING"

FiveMinusThree ==
    (source = Text(<<"5", "3", "-", ".", "@">>) /\ nsteps = 3 /\ nreloads = 0)
        => stack = <<I(2)>>

\* C27: a step that reads '+', '-' or '*' outside string mode pops b (the
\* top) and then a and pushes a OP b, with 0 for a missing operand: [v]
\* gives 0 OP v and the empty stack 0 OP 0.  The stack afterwards is the
\* untouched lower values followed by the one result; '-' on [5, 3] pushes 2.
C27_BinaryOperands == []FiveMinusThree /\ [][BinStep]_vars

\* '-' has taken 3 from 5 above an untouched 1.
C27_Witness ==
    /\ op = "step" /\ cell = 45 /\ status = "RUNNING"
    /\ source = Text(<<"1", "5", "3", "-", "@">>)
    /\ stack = <<I(1), I(2)>>

\* n is the residue of the integer a in 0..m-1.
Residue(n, a, m) ==
    /\ n \in 0..(m - 1)
    /\ Len(Norm(a)) = 1 => (Norm(a)[1] - n) % m = 0
    /\ n = Mod(a, m)

PutStep ==
    (op' = "step" /\ cell' = 112 /\ ~ip.string /\ InByte(FromTop(3))) =>
        \E row \in 0..(ip.height - 1), col \in 0..(ip.width - 1) :
            /\ Residue(row, FromTop(1), ip.height)
            /\ Residue(col, FromTop(2), ip.width)
            /\ ip'.grid[row + 1][col + 1] = Norm(FromTop(3))[1]
            /\ \A r \in 1..ip.height : r # row + 1 => ip'.grid[r] = ip.grid[r]
            /\ \A c \in 1..ip.width :
                  c # col + 1 => ip'.grid[row + 1][c] = ip.grid[row + 1][c]
            /\ stack' = Below(3)

\* C28: a step that reads 'p' outside string mode pops y, x and v, 0 for a
\* missing one; for v in 0..255 the cell (x mod width, y mod height), the
\* residues being non-negative so that negative and too large coordinates
\* wrap, then holds the character of code v, and no other cell changes.
C28_PutWraps == [][PutStep]_vars

\* 'p' with x = y = -1 has written the last cell of the last row.
C28_Witness ==
    /\ op = "step" /\ cell = 112 /\ status = "RUNNING"
    /\ source = Text(<<"&", ":", "p", "@">>) /\ arg = I(-1)
    /\ <<79, 24>> \in DOMAIN puts /\ ip.grid[25][80] = 0 /\ stack = <<>>

\* C29: a step that reads 'p' with v outside 0..255 records the full v in
\* the extended storage of the addressed cell and leaves the character of
\* code abs(v) mod 256 in the grid cell.
C29_PutOutOfRange ==
    [][(op' = "step" /\ cell' = 112 /\ ~ip.string /\ ~InByte(FromTop(3))) =>
          LET row == Mod(FromTop(1), ip.height)
              col == Mod(FromTop(2), ip.width)
          IN  /\ <<col, row>> \in DOMAIN ExtendedStorage
              /\ ExtendedStorage[<<col, row>>] = FromTop(3)
              /\ ip'.grid[row + 1][col + 1] = Mod(Abs(FromTop(3)), 256)]_vars

\* C30: a step that reads 'g' outside string mode pops y and x, 0 for a
\* missing one, and pushes the extended-storage value of the cell
\* (x mod width, y mod height) when it has one, that is when its latest 'p'
\* had a value outside 0..255, and the code of the grid cell otherwise; the
\* grid is not changed.
C30_GetStep ==
    [][(op' = "step" /\ cell' = 103 /\ ~ip.string) =>
          LET row == Mod(FromTop(1), ip.height)
              col == Mod(FromTop(2), ip.width)
              c == <<col, row>>
          IN  /\ stack' = Append(Below(2),
                                 IF c \in DOMAIN puts /\ ~InByte(puts[c])
                                 THEN puts[c]
                                 ELSE I(ip.grid[row + 1][col + 1]))
              /\ ip'.grid = ip.grid]_vars

\* The direction a conditional takes for the value it pops.
Branch(ch, v) ==
    IF ch = 95 THEN (IF IsZero(v) THEN "RIGHT" ELSE "LEFT")
    ELSE (IF IsZero(v) THEN "DOWN" ELSE "UP")

\* C31: a step that reads '_' outside string mode pops v and sets the
\* direction to RIGHT if v = 0 and LEFT otherwise, one that reads '|' sets
\* it to DOWN if v = 0 and UP otherwise; on an empty stack v is 0; the move
\* that ends the step is made in the new direction.
C31_Conditionals ==
    [][(op' = "step" /\ cell' \in {95, 124} /\ ~ip.string) =>
          /\ stack' = Below(1)
          /\ ip' = OneAhead([ip EXCEPT !.direction = Branch(cell', FromTop(1))])
          /\ status' = "RUNNING"]_vars

\* '|' has popped a 1 and sent the IP up across the top edge.
C31_Witness ==
    /\ op = "step" /\ cell = 124 /\ source = Text(<<"1", "|", "@">>)
    /\ ip.direction = "UP" /\ ip.x = 1 /\ ip.y = ip.height - 1 /\ stack = <<>>

\* The direction an arrow stands for.
Cardinal(ch) ==
    CASE ch = 62 -> "RIGHT" [] ch = 60 -> "LEFT" [] ch = 94 -> "UP"
      [] ch = 118 -> "DOWN"

\* C32: a step that reads '>', '<', '^' or 'v' outside string mode sets the
\* direction before the move of the same step: afterwards the IP is on the
\* neighbour in the new direction, wrapped at the edges, and not on the
\* neighbour in the old one; stack, grid and output are unchanged.
C32_Arrows ==
    [][(op' = "step" /\ cell' \in {62, 60, 94, 118} /\ ~ip.string) =>
          /\ ip' = OneAhead([ip EXCEPT !.direction = Cardinal(cell')])
          /\ Cardinal(cell') # ip.direction =>
                <<ip'.x, ip'.y>> # <<OneAhead(ip).x, OneAhead(ip).y>>
          /\ stack' = stack /\ output' = output
          /\ status' = "RUNNING"]_vars

\* A '<' read on the way down has carried the IP across the left edge.
C32_Witness ==
    /\ op = "step" /\ cell = 60 /\ source = Text(<<"v", "newline", "<">>)
    /\ ip.direction = "LEFT" /\ ip.x = ip.width - 1 /\ ip.y = 1

\* The decimal text of v, written out for a value of one coefficient and for
\* a power of the base.
Decimal(v) ==
    LET a == Norm(v)
    IN  IF Len(a) = 1
        THEN (IF a[1] < 0 THEN <<45>> \o Digits(-a[1]) ELSE Digits(a[1]))
        ELSE IF a = Repeat(0, Len(a) - 1) \o <<1>>
        THEN <<49>> \o Repeat(48, BigExp * (Len(a) - 1))
        ELSE Str(a)

OutIntStep ==
    (op' = "step" /\ cell' = 46 /\ ~ip.string) =>
        /\ status' = "RUNNING"
        /\ stack' = Below(1)
        /\ output' = output \o Decimal(FromTop(1))

OutCharStep ==
    (op' = "step" /\ cell' = 44 /\ ~ip.string) =>
        /\ status' = "RUNNING"
        /\ stack' = Below(1)
        /\ \E c \in 0..255 :
              Residue(c, FromTop(1), 256) /\ output' = Append(output, c)

\* C33: a step that reads '.' outside string mode pops v, 0 on an empty
\* stack, and appends exactly the decimal text of v, with '-' in front of a
\* negative one; a step that reads ',' pops v and appends exactly the one
\* character of code v mod 256, the residue being non-negative, for every
\* integer v.
C33_OutputOpcodes == [][OutIntStep /\ OutCharStep]_vars

\* C34: the original width and height are those of the supplied source in
\* every state: no step(), no 'p' write beyond them and no reset() changes
\* them.
C34_OriginalSize ==
    /\ ip.orig_width = MaxLineLen(splitlines(source))
    /\ ip.orig_height = Len(splitlines(source))

\* C35: the skip flag is false whenever a step() has returned, whatever the
\* status: the move that ends the step of a '#' consumes it, so a return of
\* AWAITING_INPUT or HALTED leaves no bridge pending.
C35_SkipConsumed ==
    (op = "step" /\ status \in {"RUNNING", "AWAITING_INPUT", "HALTED"})
        => ~ip.skip

\* The step after a bridge over '@' has asked for input on the '&'.
C35_Witness ==
    /\ op = "step" /\ cell = 38 /\ status = "AWAITING_INPUT" /\ ~ip.skip
    /\ source = Text(<<"#", "@", "&", ".", "@">>) /\ ip.x = 2 /\ nsteps = 2

\* C36: a step() takes the pending-input path only on a '&' or '~' whose
\* step has returned AWAITING_INPUT: a value provided while no input is
\* awaited is not pushed, and the next step() executes the cell under the
\* IP.
C36_InputOnRequest ==
    [][(op' = "step" /\ cell' = -1) =>
          /\ ip.grid[ip.y + 1][ip.x + 1] \in {38, 126}
          /\ status = "AWAITING_INPUT"]_vars

\* A step() made by tick() or step_once() has returned AWAITING_INPUT.
AwaitingInCallback ==
    /\ op' \in {"run", "step_once", "send_input", "tick"}
    /\ app'.stepped > 0 /\ status' = "AWAITING_INPUT"

\* send_input() is called with a text valid for the input awaited.
ValidSubmit ==
    /\ op' = "send_input" /\ status = "AWAITING_INPUT"
    /\ ip.waiting_for = "int" => ~int(arg').raised

\* C37: in the App, whenever a step() made by tick() or step_once() returns
\* AWAITING_INPUT the input bar is shown, and a valid value submitted with
\* send_input() is passed to provide_input and followed by further steps,
\* so a program that executes '&' or '~' can always be given its value.
C37_InputBar ==
    [][/\ AwaitingInCallback => app'.input_bar
       /\ ValidSubmit => (app'.stepped > 0 /\ stack' # stack)]_vars

\* C38: in the App, a pause at a breakpoint does not block execution: a
\* run() that follows a tick() which paused on a breakpoint cell executes at
\* least one step(), so that the IP leaves the cell.
C38_BreakpointResume ==
    (op = "run" /\ app.after_pause) => (app.stepped >= 1 /\ ~app.paused)

\* No callback but run(), step_once(), send_input() and the tick() of a
\* timer makes a step().
StepsOnlyOnDemand ==
    op' \notin {"run", "step_once", "send_input", "tick"} =>
        (nsteps' = nsteps /\ ip' = ip /\ stack' = stack /\ output' = output)

=============================================================================
